---- MODULE Spec2Model ----
(***************************************************************************)
(* A model of the RL demonstrations of this repository:                    *)
(*   - envs/grid_world_generator.py : the GridWorld environment            *)
(*   - bandit_problem/*.py          : KArmedBandit, epsilon_greedy, ucb    *)
(* Python values are modelled as follows: a tuple (x, y) is <<x, y>>, None *)
(* is the empty tuple, a dict is a function on its key set, a list is a    *)
(* sequence, a raised exception is recorded in the "err" field of ret.     *)
(* A variable that belongs to no object of a specification holds a fixed   *)
(* value of its type there.                                                *)
(***************************************************************************)
EXTENDS Integers, Sequences, FiniteSets, TLC

VARIABLES
    phase,             \* "new" (not yet constructed), "ready", "failed"
    grid_matrix,       \* GridWorld.grid_matrix : [Pos -> Cell]
    grid_size,         \* GridWorld.grid_size   : <<rows, cols>>
    terminal_rewards,  \* GridWorld.terminal_rewards : dict position -> reward
    start,             \* GridWorld.start
    goal,              \* GridWorld.goal
    obstacles,         \* GridWorld.obstacles (a list)
    reward_map,        \* GridWorld.reward_map : dict state -> reward
    agent_pos,         \* GridWorld.agent_pos (None while the attribute is not set)
    done,              \* GridWorld.done (FALSE while the attribute is not set)
    script,            \* remaining actions of a scripted episode
    ret,               \* what the last call returned or raised
    k,                 \* KArmedBandit.k
    q_true,            \* KArmedBandit.q_true : arm -> true mean
    optimal_action,    \* KArmedBandit.optimal_action
    q_estimates,       \* KArmedBandit.q_estimates
    action_counts,     \* KArmedBandit.action_counts
    pc,                \* where the strategy run is: "idle", "ucb_warmup",
                       \* "ucb_loop", "eps_loop", "returned"
    param,             \* the c of the ucb run, the epsilon (in percent) of the
                       \* epsilon_greedy run
    steps,             \* the steps argument of the run
    t,                 \* the loop variable of the run (action, t or step)
    rewards,           \* the list rewards of the run
    optimal_action_count, \* the list optimal_action_count of the run
    ucb_q_estimates,   \* the local q_estimates of ucb
    ucb_action_counts, \* the local action_counts of ucb
    pulled,            \* the local action of the run: the arm pulled last
    divisor,           \* the count the last estimate update divided by
    fresh              \* what the caller keeps of the first run on the bandit

gvars == <<phase, grid_matrix, grid_size, terminal_rewards, start, goal,
           obstacles, reward_map, agent_pos, done, script, ret>>

bvars == <<k, q_true, optimal_action, q_estimates, action_counts, pc, param,
           steps, t, rewards, optimal_action_count, ucb_q_estimates,
           ucb_action_counts, pulled, divisor, fresh>>

\* the GridWorld without the outcome of the last call
gfields == <<phase, grid_matrix, grid_size, terminal_rewards, start, goal,
             obstacles, reward_map, agent_pos, done, script>>

vars == <<gvars, bvars>>

-----------------------------------------------------------------------------
(* Bounds of the model *)

\* a grid of the general specification has at most MaxCells cells
MaxCells == 4
\* the terminal_rewards dict has at most MaxTerminals entries
MaxTerminals == 1
\* the grid shapes of the index-mapping specification: up to MaxRows x MaxCols
MaxRows == 4
MaxCols == 4
\* a bandit has at most MaxArms arms, a strategy run at most MaxSteps steps
MaxArms == 3
MaxSteps == 4

-----------------------------------------------------------------------------
(* Python values *)

None == <<>>

\* a grid cell holding a string marker, and one holding a number
StrCell(s) == [str |-> s]
NumCell(n) == [num |-> n]

\* isinstance(cell, (int, float))
IsNumber(cell) == DOMAIN cell = {"num"}

\* the markers and numbers a cell of the model's grids can hold
Cells == {StrCell("S"), StrCell("G"), StrCell("X"), StrCell("O"), NumCell(-5)}

\* the rewards a terminal_rewards entry of the model can hold
TerminalValues == {7}

\* dict.get(key, default)
DictGet(d, key, default) == IF key \in DOMAIN d THEN d[key] ELSE default

\* d[key] = value
DictSet(d, key, value) ==
    [x \in DOMAIN d \cup {key} |-> IF x = key THEN value ELSE d[x]]

EmptyDict == [x \in {} |-> 0]

\* the positions of a grid of the given size
Positions(size) == (0 .. size[1] - 1) \X (0 .. size[2] - 1)

\* the arguments step is called with: the four actions and two invalid ones
ActionInputs == -1 .. 4

\* what a call leaves behind: the value it returned or the error it raised.
\* __init__ returns nothing or raises
Constructed(e) == [op |-> "__init__", err |-> e]
\* reset returns the state index
ResetReturned(state) == [op |-> "reset", state |-> state]
\* step returns next_state, reward, self.done (and an empty info) or raises
Returned(action, state, reward, d) ==
    [op |-> "step", arg |-> action, state |-> state, reward |-> reward,
     done |-> d, err |-> "none"]
Raised(action, e) == [op |-> "step", arg |-> action, err |-> e]

-----------------------------------------------------------------------------
(* GridWorld *)

default_reward == -1

\* the reward of a goal cell that terminal_rewards does not override
GoalDefault == 10

\* _pos_to_state with the row count as the stride
_pos_to_state_ByRows(position) == position[1] * grid_size[1] + position[2]

\* GridWorld._pos_to_state(position)
_pos_to_state(position) == position[1] * grid_size[2] + position[2]

\* GridWorld._state_to_pos(state)
_state_to_pos(state) == <<state \div grid_size[2], state % grid_size[2]>>

\* ParseCell with a start cell that is kept once found (the first 'S' wins)
ParseCell_FirstStart(acc, i, j) ==
    LET cell  == grid_matrix[<<i, j>>]
        state == _pos_to_state(<<i, j>>)
    IN  IF cell = StrCell("S") THEN
            IF acc.start = None THEN [acc EXCEPT !.start = <<i, j>>] ELSE acc
        ELSE IF cell = StrCell("G") THEN
            [acc EXCEPT !.goal = <<i, j>>,
                        !.reward_map = DictSet(acc.reward_map, state,
                            DictGet(terminal_rewards, <<i, j>>, GoalDefault))]
        ELSE IF cell = StrCell("X") THEN
            [acc EXCEPT !.obstacles = Append(acc.obstacles, <<i, j>>)]
        ELSE IF IsNumber(cell) THEN
            [acc EXCEPT !.reward_map = DictSet(acc.reward_map, state, cell.num)]
        ELSE acc

\* the body of the double loop of __init__, for the cell (i, j)
ParseCell(acc, i, j) ==
    LET cell  == grid_matrix[<<i, j>>]
        state == _pos_to_state(<<i, j>>)
    IN  IF cell = StrCell("S") THEN [acc EXCEPT !.start = <<i, j>>]
        ELSE IF cell = StrCell("G") THEN
            [acc EXCEPT !.goal = <<i, j>>,
                        !.reward_map = DictSet(acc.reward_map, state,
                            DictGet(terminal_rewards, <<i, j>>, GoalDefault))]
        ELSE IF cell = StrCell("X") THEN
            [acc EXCEPT !.obstacles = Append(acc.obstacles, <<i, j>>)]
        ELSE IF IsNumber(cell) THEN
            [acc EXCEPT !.reward_map = DictSet(acc.reward_map, state, cell.num)]
        ELSE acc

\* the double loop of __init__ from cell (i, j) on, in row-major order
RECURSIVE ParseGrid(_, _, _)
ParseGrid(acc, i, j) ==
    IF i >= grid_size[1] THEN acc
    ELSE IF j >= grid_size[2] THEN ParseGrid(acc, i + 1, 0)
    ELSE ParseGrid(ParseCell(acc, i, j), i, j + 1)

Parsed ==
    ParseGrid([start |-> None, goal |-> None, obstacles |-> <<>>,
               reward_map |-> EmptyDict], 0, 0)

\* InitError without the check of the goal
InitError_NoGoalCheck(p) ==
    IF p.start = None THEN "ValueError" ELSE "none"

\* the checks of __init__ after the loop: the error raised, or "none"
InitError(p) ==
    IF p.start = None THEN "ValueError"
    ELSE IF p.goal = None THEN "ValueError"
    ELSE "none"

\* GridWorld.__init__(grid_matrix, default_reward, terminal_rewards)
Construct ==
    /\ phase = "new"
    /\ LET p == Parsed
       IN  /\ start' = p.start
           /\ goal' = p.goal
           /\ obstacles' = p.obstacles
           /\ reward_map' = p.reward_map
           /\ IF InitError(p) # "none"
              THEN /\ phase' = "failed"
                   /\ ret' = Constructed(InitError(p))
                   /\ UNCHANGED <<agent_pos, done>>
              ELSE \* self.reset()
                   /\ phase' = "ready"
                   /\ agent_pos' = p.start
                   /\ done' = FALSE
                   /\ ret' = Constructed("none")
    /\ UNCHANGED <<grid_matrix, grid_size, terminal_rewards>>

\* GridWorld.reset()
reset ==
    /\ phase = "ready"
    /\ agent_pos' = start
    /\ done' = FALSE
    /\ ret' = ResetReturned(_pos_to_state(start))
    /\ UNCHANGED <<phase, grid_matrix, grid_size, terminal_rewards, start,
                   goal, obstacles, reward_map>>

\* _move without the final else: an unknown action leaves the position as it is
_move_NoRaise(position, action) ==
    LET x == position[1]
        y == position[2]
    IN  IF action = 0 THEN [err |-> "none", pos |-> <<x - 1, y>>]
        ELSE IF action = 1 THEN [err |-> "none", pos |-> <<x, y + 1>>]
        ELSE IF action = 2 THEN [err |-> "none", pos |-> <<x + 1, y>>]
        ELSE IF action = 3 THEN [err |-> "none", pos |-> <<x, y - 1>>]
        ELSE [err |-> "none", pos |-> <<x, y>>]

\* _move with rows and columns taken for one another
_move_Transposed(position, action) ==
    LET x == position[1]
        y == position[2]
    IN  IF action = 0 THEN [err |-> "none", pos |-> <<x, y - 1>>]
        ELSE IF action = 1 THEN [err |-> "none", pos |-> <<x + 1, y>>]
        ELSE IF action = 2 THEN [err |-> "none", pos |-> <<x, y + 1>>]
        ELSE IF action = 3 THEN [err |-> "none", pos |-> <<x - 1, y>>]
        ELSE [err |-> "ValueError", pos |-> None]

\* GridWorld._move(position, action): the new position, or the error raised
_move(position, action) ==
    LET x == position[1]
        y == position[2]
    IN  IF action = 0 THEN [err |-> "none", pos |-> <<x - 1, y>>]
        ELSE IF action = 1 THEN [err |-> "none", pos |-> <<x, y + 1>>]
        ELSE IF action = 2 THEN [err |-> "none", pos |-> <<x + 1, y>>]
        ELSE IF action = 3 THEN [err |-> "none", pos |-> <<x, y - 1>>]
        ELSE [err |-> "ValueError", pos |-> None]

\* position in self.obstacles
InList(x, list) == \E n \in 1 .. Len(list) : list[n] = x

\* _is_valid without the obstacle test
_is_valid_NoObstacles(position) ==
    LET x == position[1]
        y == position[2]
    IN  IF x < 0 \/ x >= grid_size[1] \/ y < 0 \/ y >= grid_size[2] THEN FALSE
        ELSE TRUE

\* GridWorld._is_valid(position)
_is_valid(position) ==
    LET x == position[1]
        y == position[2]
    IN  IF x < 0 \/ x >= grid_size[1] \/ y < 0 \/ y >= grid_size[2] THEN FALSE
        ELSE IF InList(position, obstacles) THEN FALSE
        ELSE TRUE

\* the terminal test without the goal: only mapped positions end the episode
IsTerminal_OnlyMapped(position) == position \in DOMAIN terminal_rewards

\* the terminal test with the goal alone
IsTerminal_OnlyGoal(position) == position = goal

\* the terminal test of step
IsTerminal(position) == position = goal \/ position \in DOMAIN terminal_rewards

\* the reward without the lookup in reward_map: every step costs the default
StepReward_NoMap(position) == default_reward

\* the reward step returns for the position the agent ends on
StepReward(position) ==
    DictGet(reward_map, _pos_to_state(position), default_reward)

\* step without its guard
StepRaises_Never == FALSE

\* the guard of step: whether the call raises before it does anything
StepRaises == done

\* GridWorld.step(action)
step(action) ==
    /\ phase = "ready"
    /\ IF StepRaises
       THEN /\ ret' = Raised(action, "Exception")
            /\ UNCHANGED <<agent_pos, done>>
       ELSE LET m == _move(agent_pos, action)
            IN  IF m.err # "none"
                THEN /\ ret' = Raised(action, m.err)
                     /\ UNCHANGED <<agent_pos, done>>
                ELSE LET pos == IF _is_valid(m.pos) THEN m.pos ELSE agent_pos
                     IN  /\ agent_pos' = pos
                         /\ done' = IsTerminal(pos)
                         /\ ret' = Returned(action, _pos_to_state(pos),
                                            StepReward(pos), IsTerminal(pos))
    /\ UNCHANGED <<phase, grid_matrix, grid_size, terminal_rewards, start,
                   goal, obstacles, reward_map>>

-----------------------------------------------------------------------------
(* The general specification: any grid of at most MaxCells cells, any       *)
(* terminal_rewards of at most MaxTerminals entries, any sequence of calls. *)

Shapes == {s \in (1 .. MaxCells) \X (1 .. MaxCells) : s[1] * s[2] <= MaxCells}

\* the dicts with keys in K, at most n of them, and values in V
Dicts(K, V, n) ==
    UNION {[D -> V] : D \in {D \in SUBSET K : Cardinality(D) <= n}}

NoCall == [op |-> "none"]

\* the specifications of GridWorld have no bandit, and those of the bandit
\* no GridWorld
NoBandit ==
    /\ k = 0
    /\ q_true = <<>>
    /\ optimal_action = 0
    /\ q_estimates = <<>>
    /\ action_counts = <<>>
    /\ pc = "idle"
    /\ param = 0
    /\ steps = 0
    /\ t = 0
    /\ rewards = <<>>
    /\ optimal_action_count = <<>>
    /\ ucb_q_estimates = <<>>
    /\ ucb_action_counts = <<>>
    /\ pulled = 0
    /\ divisor = 0
    /\ fresh = <<>>

NoGridWorld ==
    /\ phase = "new"
    /\ grid_matrix = <<>>
    /\ grid_size = None
    /\ terminal_rewards = EmptyDict
    /\ start = None
    /\ goal = None
    /\ obstacles = <<>>
    /\ reward_map = EmptyDict
    /\ agent_pos = None
    /\ done = FALSE
    /\ script = <<>>
    /\ ret = NoCall

Init ==
    /\ phase = "new"
    /\ grid_size \in Shapes
    /\ grid_matrix \in [Positions(grid_size) -> Cells]
    /\ terminal_rewards \in Dicts(Positions(grid_size), TerminalValues, MaxTerminals)
    /\ start = None
    /\ goal = None
    /\ obstacles = <<>>
    /\ reward_map = EmptyDict
    /\ agent_pos = None
    /\ done = FALSE
    /\ script = <<>>
    /\ ret = NoCall
    /\ NoBandit

New == Construct /\ UNCHANGED <<script, bvars>>

Reset == reset /\ UNCHANGED <<script, bvars>>

Step == \E action \in ActionInputs : step(action) /\ UNCHANGED <<script, bvars>>

Next == New \/ Reset \/ Step

Spec == Init /\ [][Next]_vars

-----------------------------------------------------------------------------
(* The index-mapping specification: for any grid shape up to MaxRows x       *)
(* MaxCols, _pos_to_state and _state_to_pos applied to any position and any  *)
(* state index of the grid, each followed by the other. The environment is   *)
(* as __init__ has it when it first calls _pos_to_state: grid_size is set,   *)
(* nothing is parsed yet.                                                    *)

\* the state space of the grid: GridWorld.state_space
state_space == grid_size[1] * grid_size[2]

InitIndex ==
    /\ phase = "new"
    /\ grid_size \in (1 .. MaxRows) \X (1 .. MaxCols)
    /\ grid_matrix = [p \in Positions(grid_size) |-> StrCell("O")]
    /\ terminal_rewards = EmptyDict
    /\ start = None
    /\ goal = None
    /\ obstacles = <<>>
    /\ reward_map = EmptyDict
    /\ agent_pos = None
    /\ done = FALSE
    /\ script = <<>>
    /\ ret = NoCall
    /\ NoBandit

\* _state_to_pos(_pos_to_state(position))
PosToState ==
    /\ \E position \in Positions(grid_size) :
           ret' = [op |-> "_pos_to_state", position |-> position,
                   state |-> _pos_to_state(position),
                   position_back |-> _state_to_pos(_pos_to_state(position))]
    /\ UNCHANGED <<phase, grid_matrix, grid_size, terminal_rewards, start, goal,
                   obstacles, reward_map, agent_pos, done, script, bvars>>

\* _pos_to_state(_state_to_pos(state))
StateToPos ==
    /\ \E state \in 0 .. state_space - 1 :
           ret' = [op |-> "_state_to_pos", state |-> state,
                   position |-> _state_to_pos(state),
                   state_back |-> _pos_to_state(_state_to_pos(state))]
    /\ UNCHANGED <<phase, grid_matrix, grid_size, terminal_rewards, start, goal,
                   obstacles, reward_map, agent_pos, done, script, bvars>>

NextIndex == PosToState \/ StateToPos

SpecIndex == InitIndex /\ [][NextIndex]_vars

-----------------------------------------------------------------------------
(* The scenario specification: the 5x5 grid of the usage example at the end  *)
(* of grid_world_generator.py and variations of it that keep row 0 and       *)
(* column 4 free of obstacles and of terminal_rewards entries; after the     *)
(* construction and a reset, the actions right x 4, down x 4.                *)

ScenarioSize == <<5, 5>>

\* grid_matrix of the usage example
ExampleGrid ==
    [p \in Positions(ScenarioSize) |->
        IF p = <<0, 0>> THEN StrCell("S")
        ELSE IF p = <<4, 4>> THEN StrCell("G")
        ELSE IF p \in {<<1, 1>>, <<1, 3>>, <<2, 2>>, <<3, 3>>} THEN StrCell("X")
        ELSE IF p = <<1, 2>> THEN NumCell(-5)
        ELSE StrCell("O")]

\* the grid g with the cells of v in place of its own
Overlay(g, v) == [p \in DOMAIN g |-> IF p \in DOMAIN v THEN v[p] ELSE g[p]]

\* cells off the path that the scenario varies, and cells on the path
OffPath == {<<1, 1>>, <<1, 2>>, <<1, 3>>, <<2, 2>>, <<3, 3>>}
OnPath == {<<0, 2>>, <<2, 4>>}

ScenarioGrids ==
    {Overlay(Overlay(ExampleGrid, v), w) :
        v \in [OffPath -> {StrCell("O"), StrCell("X"), NumCell(-5)}],
        w \in [OnPath -> {StrCell("O"), NumCell(-5)}]}

\* terminal_rewards: the goal with reward 10 or no entry for it, and
\* possibly an entry off the path
ScenarioTerminals ==
    {[p \in D \cup G |-> IF p = <<4, 4>> THEN 10 ELSE 7] :
        D \in SUBSET {<<1, 2>>, <<3, 0>>}, G \in {{}, {<<4, 4>>}}}

ScenarioActions == <<1, 1, 1, 1, 2, 2, 2, 2>>

InitScenario ==
    /\ phase = "new"
    /\ grid_size = ScenarioSize
    /\ grid_matrix \in ScenarioGrids
    /\ terminal_rewards \in ScenarioTerminals
    /\ start = None
    /\ goal = None
    /\ obstacles = <<>>
    /\ reward_map = EmptyDict
    /\ agent_pos = None
    /\ done = FALSE
    /\ script = ScenarioActions
    /\ ret = NoCall
    /\ NoBandit

\* state = env.reset()
ScenarioReset == ret.op = "__init__" /\ reset /\ UNCHANGED <<script, bvars>>

\* the next env.step(action) of the sequence
ScenarioStep ==
    /\ ret.op \in {"reset", "step"}
    /\ script # <<>>
    /\ step(Head(script))
    /\ script' = Tail(script)
    /\ UNCHANGED bvars

NextScenario == New \/ ScenarioReset \/ ScenarioStep

SpecScenario == InitScenario /\ [][NextScenario]_vars

-----------------------------------------------------------------------------
(* KArmedBandit, epsilon_greedy and ucb.                                     *)
(* A numpy array of length k is a function on 0 .. k-1. The true means of    *)
(* the model are integers, so every estimate is 0 or a true mean and the     *)
(* division of the incremental update is exact. A ucb score is kept in       *)
(* units of 1/10000, which separates the scores the model can compare.       *)

\* np.zeros(n)
zeros(n) == [i \in 0 .. n - 1 |-> 0]

\* an argmax that breaks ties toward the last index
argmax_LastMax(a) ==
    CHOOSE i \in DOMAIN a :
        \A j \in DOMAIN a : a[i] > a[j] \/ (a[i] = a[j] /\ i >= j)

\* np.argmax(a): the lowest index of a maximum
argmax(a) ==
    CHOOSE i \in DOMAIN a :
        \A j \in DOMAIN a : a[i] > a[j] \/ (a[i] = a[j] /\ i <= j)

\* the true means np.random.normal can draw, in the model
Means == -1 .. 1

\* c_values of run_ucb_experiment
c_values == {1, 2, 5}

\* epsilons of run_experiment, in percent
epsilons == {0, 10, 1}

\* KArmedBandit.step(action): the pair it returns; the count it increments is
\* in BanditCounts
BanditStepResult(action) ==
    [reward |-> q_true[action], is_optimal |-> (action = optimal_action)]

\* a step that sets the count of the arm to 1
BanditCounts_SetToOne(action) == [action_counts EXCEPT ![action] = 1]

\* self.action_counts[action] += 1
BanditCounts(action) == [action_counts EXCEPT ![action] = @ + 1]

\* what a numpy division by zero gives: inf or nan (and a RuntimeWarning, no
\* exception); the model holds one value for them, above every finite one
NonFinite == 1000 * 1000 * 1000

\* estimate += (reward - estimate) / count
Update(estimate, reward, count) ==
    IF count = 0 THEN NonFinite
    ELSE estimate + (reward - estimate) \div count

\* floor of the square root of n
RECURSIVE IsqrtBetween(_, _, _)
IsqrtBetween(n, lo, hi) ==
    IF lo >= hi THEN lo
    ELSE LET mid == (lo + hi + 1) \div 2
         IN  IF mid * mid <= n THEN IsqrtBetween(n, mid, hi)
             ELSE IsqrtBetween(n, lo, mid - 1)

Isqrt(n) == IsqrtBetween(n, 0, 20000)

\* np.log(t) for t = 1, 2, ..., in units of 1/1000000
LnMicro ==
    <<0, 693147, 1098612, 1386294, 1609437, 1791759, 1945910, 2079441,
      2197224, 2302585, 2397895, 2484906>>

\* q_estimates + c * np.sqrt(np.log(t) / action_counts), in units of 1/10000
ucb_values(c, time) ==
    [i \in 0 .. k - 1 |->
        IF ucb_action_counts[i] = 0 THEN NonFinite
        ELSE ucb_q_estimates[i] * 10000
                + c * Isqrt((LnMicro[time] * 100) \div ucb_action_counts[i])]

\* a reset that draws the true means again
bandit_reset_Redraw ==
    /\ q_estimates' = zeros(k)
    /\ action_counts' = zeros(k)
    /\ k' = k
    /\ q_true' \in [0 .. k - 1 -> Means]
    /\ optimal_action' = argmax(q_true')

\* KArmedBandit.reset()
bandit_reset ==
    /\ q_estimates' = zeros(k)
    /\ action_counts' = zeros(k)
    /\ UNCHANGED <<k, q_true, optimal_action>>

\* KArmedBandit.step(action), for an arm of the bandit: what it does to the
\* bandit; what it returns is BanditStepResult(action)
bandit_step(action) ==
    /\ action_counts' = BanditCounts(action)
    /\ UNCHANGED <<k, q_true, optimal_action>>

\* the run is over: the function has not been called or has returned
Idle == pc \in {"idle", "returned"}

\* a ucb whose two lists outlive the call
ucb_call_KeepLists(c, n) ==
    /\ Idle
    /\ pc' = "ucb_warmup"
    /\ param' = c
    /\ steps' = n
    /\ bandit_reset
    /\ UNCHANGED <<rewards, optimal_action_count>>
    /\ ucb_q_estimates' = zeros(k)
    /\ ucb_action_counts' = zeros(k)
    /\ t' = 0
    /\ UNCHANGED <<pulled, divisor>>

\* ucb(bandit, c, steps) up to its first loop
ucb_call(c, n) ==
    /\ Idle
    /\ pc' = "ucb_warmup"
    /\ param' = c
    /\ steps' = n
    /\ bandit_reset
    /\ rewards' = <<>>
    /\ optimal_action_count' = <<>>
    /\ ucb_q_estimates' = zeros(k)
    /\ ucb_action_counts' = zeros(k)
    /\ t' = 0
    /\ UNCHANGED <<pulled, divisor>>

\* a warm-up that leaves the last arm out
WarmupLeft_SkipLast(action) == action < k - 1

\* the arms the first loop of ucb still has to pull, given the next one
WarmupLeft(action) == action < k

\* a warm-up that goes through the arms from the last to the first
ucb_warmup_Reversed ==
    /\ pc = "ucb_warmup"
    /\ WarmupLeft(t)
    /\ LET arm == k - 1 - t
           r == BanditStepResult(arm)
       IN  /\ bandit_step(arm)
           /\ pulled' = arm
           /\ rewards' = Append(rewards, r.reward)
           /\ optimal_action_count' = Append(optimal_action_count, r.is_optimal)
           /\ ucb_q_estimates' = [ucb_q_estimates EXCEPT ![arm] = r.reward]
           /\ ucb_action_counts' = [ucb_action_counts EXCEPT ![arm] = 1]
    /\ t' = t + 1
    /\ pc' = IF WarmupLeft(t + 1) THEN "ucb_warmup" ELSE "ucb_loop"
    /\ UNCHANGED <<q_estimates, param, steps, divisor>>

\* an iteration of the first loop of ucb: for action in range(bandit.k)
ucb_warmup ==
    /\ pc = "ucb_warmup"
    /\ WarmupLeft(t)
    /\ LET r == BanditStepResult(t)
       IN  /\ bandit_step(t)
           /\ pulled' = t
           /\ rewards' = Append(rewards, r.reward)
           /\ optimal_action_count' = Append(optimal_action_count, r.is_optimal)
           /\ ucb_q_estimates' = [ucb_q_estimates EXCEPT ![t] = r.reward]
           /\ ucb_action_counts' = [ucb_action_counts EXCEPT ![t] = 1]
    /\ t' = t + 1
    /\ pc' = IF WarmupLeft(t + 1) THEN "ucb_warmup" ELSE "ucb_loop"
    /\ UNCHANGED <<q_estimates, param, steps, divisor>>

\* an iteration of the second loop of ucb: for t in range(bandit.k, steps)
ucb_loop ==
    /\ pc = "ucb_loop"
    /\ t < steps
    /\ LET action == argmax(ucb_values(param, t))
           r == BanditStepResult(action)
           count == ucb_action_counts[action] + 1
       IN  /\ bandit_step(action)
           /\ pulled' = action
           /\ rewards' = Append(rewards, r.reward)
           /\ optimal_action_count' = Append(optimal_action_count, r.is_optimal)
           /\ ucb_action_counts' = [ucb_action_counts EXCEPT ![action] = count]
           /\ divisor' = count
           /\ ucb_q_estimates' =
                  [ucb_q_estimates EXCEPT
                      ![action] = Update(@, r.reward, count)]
    /\ t' = t + 1
    /\ UNCHANGED <<q_estimates, param, steps, pc>>

\* return rewards, optimal_action_count
ucb_return ==
    /\ pc = "ucb_loop"
    /\ t >= steps
    /\ pc' = "returned"
    /\ UNCHANGED <<k, q_true, optimal_action, q_estimates, action_counts, param,
                   steps, t, rewards, optimal_action_count, ucb_q_estimates,
                   ucb_action_counts, pulled, divisor>>

\* epsilon_greedy(bandit, epsilon, steps) up to its loop
epsilon_greedy_call(epsilon, n) ==
    /\ Idle
    /\ pc' = "eps_loop"
    /\ param' = epsilon
    /\ steps' = n
    /\ bandit_reset
    /\ rewards' = <<>>
    /\ optimal_action_count' = <<>>
    /\ t' = 0
    /\ UNCHANGED <<ucb_q_estimates, ucb_action_counts, pulled, divisor>>

\* the values np.random.rand() <= epsilon can take
RandLess_OrEqual(epsilon) ==
    {b \in BOOLEAN : (b => epsilon >= 0) /\ (~b => epsilon < 100)}

\* the values np.random.rand() < epsilon can take, epsilon in percent
RandLess(epsilon) ==
    {b \in BOOLEAN : (b => epsilon > 0) /\ (~b => epsilon < 100)}

\* the arms an iteration of epsilon_greedy can select
Selected(epsilon) ==
    {a \in 0 .. k - 1 :
        \/ TRUE \in RandLess(epsilon)
        \/ FALSE \in RandLess(epsilon) /\ a = argmax(q_estimates)}

\* the divisor of the update of epsilon_greedy with the count taken before
\* the pull
Divisor_BeforePull(action) == action_counts[action]

\* bandit.action_counts[action] in the update of epsilon_greedy, which runs
\* after bandit.step(action)
Divisor(action) == BanditCounts(action)[action]

\* an iteration of the loop of epsilon_greedy: for step in range(steps)
epsilon_greedy_loop ==
    /\ pc = "eps_loop"
    /\ t < steps
    /\ \E action \in Selected(param) :
           LET r == BanditStepResult(action)
           IN  /\ bandit_step(action)
               /\ pulled' = action
               /\ rewards' = Append(rewards, r.reward)
               /\ optimal_action_count' =
                      Append(optimal_action_count, r.is_optimal)
               /\ divisor' = Divisor(action)
               /\ q_estimates' =
                      [q_estimates EXCEPT
                          ![action] = Update(@, r.reward, Divisor(action))]
    /\ t' = t + 1
    /\ UNCHANGED <<param, steps, pc, ucb_q_estimates, ucb_action_counts>>

\* return rewards, optimal_action_count
epsilon_greedy_return ==
    /\ pc = "eps_loop"
    /\ t >= steps
    /\ pc' = "returned"
    /\ UNCHANGED <<k, q_true, optimal_action, q_estimates, action_counts, param,
                   steps, t, rewards, optimal_action_count, ucb_q_estimates,
                   ucb_action_counts, pulled, divisor>>

-----------------------------------------------------------------------------
(* The bandit specification: a bandit of at most MaxArms arms, as            *)
(* KArmedBandit(k) constructs it, and on it any sequence of strategy runs of *)
(* at most MaxSteps steps, as the loops of run_experiment and                *)
(* run_ucb_experiment make them.                                             *)

\* KArmedBandit.__init__(k)
InitBandit ==
    /\ NoGridWorld
    /\ k \in 1 .. MaxArms
    /\ q_true \in [0 .. k - 1 -> Means]
    /\ optimal_action = argmax(q_true)
    /\ q_estimates = zeros(k)
    /\ action_counts = zeros(k)
    /\ pc = "idle"
    /\ param = 0
    /\ steps = 0
    /\ t = 0
    /\ rewards = <<>>
    /\ optimal_action_count = <<>>
    /\ ucb_q_estimates = <<>>
    /\ ucb_action_counts = <<>>
    /\ pulled = 0
    /\ divisor = 0
    /\ fresh = <<>>

\* the function a run is a run of
Running(f) == [op |-> f]

\* rewards, optimal_actions = ucb(bandit, c=c, steps=steps)
CallUcb ==
    /\ \E c \in c_values, n \in 0 .. MaxSteps : ucb_call(c, n)
    /\ ret' = Running("ucb")
    /\ UNCHANGED <<gfields, fresh>>

UcbWarmup == ucb_warmup /\ UNCHANGED <<gvars, fresh>>

UcbLoop == ucb_loop /\ UNCHANGED <<gvars, fresh>>

UcbReturn == ucb_return /\ UNCHANGED <<gvars, fresh>>

\* rewards, optimal_actions = epsilon_greedy(bandit, epsilon=eps, steps=steps)
CallEpsilonGreedy ==
    /\ \E eps \in epsilons, n \in 0 .. MaxSteps : epsilon_greedy_call(eps, n)
    /\ ret' = Running("epsilon_greedy")
    /\ UNCHANGED <<gfields, fresh>>

EpsilonGreedyLoop == epsilon_greedy_loop /\ UNCHANGED <<gvars, fresh>>

EpsilonGreedyReturn == epsilon_greedy_return /\ UNCHANGED <<gvars, fresh>>

NextBandit ==
    \/ CallUcb \/ UcbWarmup \/ UcbLoop \/ UcbReturn
    \/ CallEpsilonGreedy \/ EpsilonGreedyLoop \/ EpsilonGreedyReturn

SpecBandit == InitBandit /\ [][NextBandit]_vars

-----------------------------------------------------------------------------
(* A caller that uses the bandit directly, between runs of the strategies *)

MaxCallArms == 2
MaxCallSteps == 2

\* KArmedBandit with k = n whose draw of the true means came out as means
NewBandit(n, means) ==
    /\ k = n
    /\ q_true = means
    /\ optimal_action = argmax(means)
    /\ q_estimates = zeros(n)
    /\ action_counts = zeros(n)
    /\ pc = "idle"
    /\ param = 0
    /\ steps = 0
    /\ t = 0
    /\ rewards = <<>>
    /\ optimal_action_count = <<>>
    /\ ucb_q_estimates = <<>>
    /\ ucb_action_counts = <<>>
    /\ pulled = 0
    /\ divisor = 0
    /\ fresh = <<>>

InitCalls ==
    /\ NoGridWorld
    /\ \E n \in 1 .. MaxCallArms :
           \E means \in [0 .. n - 1 -> Means] : NewBandit(n, means)

\* the arguments the caller passes to KArmedBandit.step
BanditActionInputs == -1 .. k

\* a[i] of a numpy array of length k: a negative index counts from the end
NpIndex(i) == IF i < 0 THEN i + k ELSE i

\* a[i] raises IndexError
NpIndexError(i) == i < -k \/ i >= k

\* the number of pulls made since the last reset
RECURSIVE PullsUpTo(_)
PullsUpTo(n) == IF n = 0 THEN 0 ELSE action_counts[n - 1] + PullsUpTo(n - 1)

Pulls == PullsUpTo(k)

\* bandit.reset() called by the caller
BanditReset ==
    /\ Idle
    /\ bandit_reset
    /\ ret' = [op |-> "bandit.reset"]
    /\ UNCHANGED <<gfields, pc, param, steps, t, rewards, optimal_action_count,
                   ucb_q_estimates, ucb_action_counts, pulled, divisor, fresh>>

\* bandit.step(action) called by the caller; q_true[action] raises IndexError
\* before anything is assigned
BanditStep ==
    /\ Idle
    /\ Pulls <= MaxCallSteps
    /\ \E action \in BanditActionInputs :
           IF NpIndexError(action)
           THEN /\ ret' = [op |-> "bandit.step", arg |-> action,
                           err |-> "IndexError"]
                /\ UNCHANGED <<k, q_true, optimal_action, action_counts>>
           ELSE /\ bandit_step(NpIndex(action))
                /\ ret' = [op |-> "bandit.step", arg |-> action, err |-> "none",
                           reward |-> q_true[NpIndex(action)],
                           is_optimal |-> (action = optimal_action)]
    /\ UNCHANGED <<gfields, q_estimates, pc, param, steps, t, rewards,
                   optimal_action_count, ucb_q_estimates, ucb_action_counts,
                   pulled, divisor, fresh>>

\* short runs of the two strategies between the caller's own calls
ShortUcb ==
    /\ \E c \in c_values, n \in 0 .. MaxCallSteps : ucb_call(c, n)
    /\ ret' = Running("ucb")
    /\ UNCHANGED <<gfields, fresh>>

ShortEpsilonGreedy ==
    /\ \E eps \in epsilons, n \in 0 .. MaxCallSteps :
           epsilon_greedy_call(eps, n)
    /\ ret' = Running("epsilon_greedy")
    /\ UNCHANGED <<gfields, fresh>>

NextCalls ==
    \/ BanditReset \/ BanditStep
    \/ ShortUcb \/ UcbWarmup \/ UcbLoop \/ UcbReturn
    \/ ShortEpsilonGreedy \/ EpsilonGreedyLoop \/ EpsilonGreedyReturn

SpecCalls == InitCalls /\ [][NextCalls]_vars

-----------------------------------------------------------------------------
(* One bandit for several runs, as in run_ucb_experiment: the first run is a *)
(* run of ucb on the bandit as constructed, and the caller keeps its result. *)

\* rewards, optimal_actions = ucb(bandit, c=c, steps=steps) on the new bandit
FreshUcb ==
    /\ pc = "idle"
    /\ CallUcb

\* the result of the first run, the bandit not yet used again
Kept ==
    <<[c |-> param, steps |-> steps, rewards |-> rewards,
       optimal_actions |-> optimal_action_count, used |-> FALSE]>>

\* the caller's note that the bandit goes into another run
Used == <<[fresh[1] EXCEPT !.used = TRUE]>>

\* return rewards, optimal_action_count: of the first run the caller keeps
\* the lists
ReuseUcbReturn ==
    /\ ucb_return
    /\ fresh' = IF fresh = <<>> THEN Kept ELSE fresh
    /\ UNCHANGED gvars

\* a later run of ucb on the same bandit: for c in c_values, with the steps
\* of the experiment
LaterUcb ==
    /\ pc = "returned"
    /\ \E c \in c_values : ucb_call(c, fresh[1].steps)
    /\ ret' = Running("ucb")
    /\ fresh' = Used
    /\ UNCHANGED gfields

\* a later, short run of epsilon_greedy on the same bandit
LaterEpsilonGreedy ==
    /\ pc = "returned"
    /\ \E eps \in epsilons, n \in 0 .. MaxCallSteps :
           epsilon_greedy_call(eps, n)
    /\ ret' = Running("epsilon_greedy")
    /\ fresh' = Used
    /\ UNCHANGED gfields

NextReuse ==
    \/ FreshUcb \/ LaterUcb \/ UcbWarmup \/ UcbLoop \/ ReuseUcbReturn
    \/ LaterEpsilonGreedy \/ EpsilonGreedyLoop \/ EpsilonGreedyReturn

SpecReuse == InitBandit /\ [][NextReuse]_vars

-----------------------------------------------------------------------------
(* epsilon_greedy with epsilon = 0 on a bandit with one arm far above the rest *)

MaxGreedySteps == 8

\* true mean 100 for arm 0 and 0 for every other arm
DominantMeans(n) == [i \in 0 .. n - 1 |-> IF i = 0 THEN 100 ELSE 0]

InitDominant ==
    /\ NoGridWorld
    /\ \E n \in 1 .. MaxArms : NewBandit(n, DominantMeans(n))

\* rewards, optimal_actions = epsilon_greedy(bandit, epsilon=0, steps=steps)
CallGreedy ==
    /\ \E n \in 0 .. MaxGreedySteps : epsilon_greedy_call(0, n)
    /\ ret' = Running("epsilon_greedy")
    /\ UNCHANGED <<gfields, fresh>>

NextDominant == CallGreedy \/ EpsilonGreedyLoop \/ EpsilonGreedyReturn

SpecDominant == InitDominant /\ [][NextDominant]_vars

-----------------------------------------------------------------------------
(* Properties of GridWorld, checked under Spec *)

\* the number of cells of the grid holding the marker m
Count(m) == Cardinality({p \in Positions(grid_size) : grid_matrix[p] = StrCell(m)})

\* the last cell, in row-major order, holding the marker m
LastCell(m) ==
    CHOOSE p \in Positions(grid_size) :
        /\ grid_matrix[p] = StrCell(m)
        /\ \A q \in Positions(grid_size) :
               grid_matrix[q] = StrCell(m) =>
                   (q[1] < p[1] \/ (q[1] = p[1] /\ q[2] <= p[2]))

\* the last call was a step that returned
Stepped == ret.op = "step" /\ ret.err = "none"

\* C1: after construction and after every reset() and step(a), the agent is
\* inside the grid and not on an obstacle ('X') cell.
C1_AgentOnFreeCell ==
    phase = "ready" =>
        /\ agent_pos \in Positions(grid_size)
        /\ grid_matrix[agent_pos] # StrCell("X")

\* a step towards an obstacle cell inside the grid has left the agent in place
C1_Witness ==
    /\ phase = "ready"
    /\ Stepped
    /\ ret.arg \in 0 .. 3
    /\ _move(agent_pos, ret.arg).pos \in Positions(grid_size)
    /\ grid_matrix[_move(agent_pos, ret.arg).pos] = StrCell("X")

\* C2: a step that leaves the agent on the goal cell returns done = true and
\* the goal reward: the terminal_rewards entry of the goal if there is one,
\* otherwise 10.
C2_GoalEndsWithGoalReward ==
    (phase = "ready" /\ Stepped /\ agent_pos = goal) =>
        /\ ret.done = TRUE
        /\ done = TRUE
        /\ ret.reward = DictGet(terminal_rewards, goal, GoalDefault)

\* a step has reached a goal whose reward terminal_rewards overrides
C2_Witness ==
    /\ phase = "ready"
    /\ Stepped
    /\ agent_pos = goal
    /\ goal \in DOMAIN terminal_rewards
    /\ ret.reward = terminal_rewards[goal]

\* C3: once done is true every step(a), for any a, raises and changes neither
\* the position nor done; only reset() leaves that state, putting the agent on
\* the start cell with done = false, and the step after a reset is not refused.
C3_DoneUntilReset ==
    [][ /\ (phase = "ready" /\ done = TRUE) =>
            \/ /\ ret'.op = "step"
               /\ ret'.err = "Exception"
               /\ agent_pos' = agent_pos
               /\ done' = done
            \/ /\ ret'.op = "reset"
               /\ agent_pos' = start
               /\ done' = FALSE
        /\ (ret.op = "reset" /\ ret'.op = "step") => ret'.err # "Exception"
      ]_vars

\* a step of a finished episode was refused with an invalid action as argument
C3_Witness ==
    /\ phase = "ready"
    /\ done = TRUE
    /\ ret.op = "step"
    /\ ret.err = "Exception"
    /\ ret.arg \notin 0 .. 3

\* C4 as stated: construction succeeds only for grids with exactly one 'S'
\* cell and exactly one 'G' cell.
C4_ExactlyOneStartAndGoal ==
    phase = "ready" => (Count("S") = 1 /\ Count("G") = 1)

\* C4 amended: construction succeeds if and only if the grid has at least one
\* 'S' cell and at least one 'G' cell; of several 'S' (or 'G') cells the last
\* one in row-major order becomes the start (the goal).
C4_AtLeastOneStartAndGoal ==
    phase # "new" =>
        /\ phase = "ready" <=> (Count("S") >= 1 /\ Count("G") >= 1)
        /\ phase = "ready" => (start = LastCell("S") /\ goal = LastCell("G"))

\* a grid with two 'S' cells and two 'G' cells was accepted
C4_Witness ==
    /\ phase = "ready"
    /\ Count("S") >= 2
    /\ Count("G") >= 2

\* C5: construction of a grid without 'S' cell or without 'G' cell raises, and
\* leaves no usable environment: reset() has not run and no call is possible.
C5_MissingMarkerFails ==
    (phase # "new" /\ (Count("S") = 0 \/ Count("G") = 0)) =>
        /\ phase = "failed"
        /\ ret.op = "__init__"
        /\ ret.err = "ValueError"
        /\ agent_pos = None
        /\ ~ ENABLED (Reset \/ Step)

\* the construction of the 2x2 grid of obstacle markers has failed
C5_Witness ==
    /\ phase = "failed"
    /\ grid_size = <<2, 2>>
    /\ \A p \in Positions(grid_size) : grid_matrix[p] = StrCell("X")

\* C6: in an episode that is not done, step(a) with a outside {0,1,2,3} raises
\* the invalid-action error and changes nothing of the environment, so that
\* the next step starts from the state the invalid call found.
C6_InvalidActionRaises ==
    [][ (phase = "ready" /\ done = FALSE /\ ret'.op = "step"
            /\ ret'.arg \notin 0 .. 3) =>
            /\ ret'.err = "ValueError"
            /\ UNCHANGED <<phase, grid_matrix, grid_size, terminal_rewards,
                           start, goal, obstacles, reward_map, agent_pos, done>>
      ]_vars

\* an invalid action was refused in a running episode, away from the start
C6_Witness ==
    /\ phase = "ready"
    /\ done = FALSE
    /\ ret.op = "step"
    /\ ret.err = "ValueError"
    /\ agent_pos # start

\* C8 as stated: a step that ends on a position with a terminal_rewards entry
\* ends the episode and returns the reward of that entry.
C8_TerminalEntryIsReturned ==
    (phase = "ready" /\ Stepped /\ agent_pos \in DOMAIN terminal_rewards) =>
        /\ ret.done = TRUE
        /\ ret.reward = terminal_rewards[agent_pos]

-----------------------------------------------------------------------------
(* Properties of the index mapping, checked under SpecIndex *)

\* C7: for every grid shape and every position p of the grid,
\* _pos_to_state(p) = row * cols + col lies in 0 .. rows*cols - 1 and
\* _state_to_pos takes it back to p; _pos_to_state takes _state_to_pos(s)
\* back to s for every s in that range; no two positions share an index.
C7_IndexBijection ==
    /\ ret.op = "_pos_to_state" =>
           /\ ret.state = ret.position[1] * grid_size[2] + ret.position[2]
           /\ ret.state \in 0 .. grid_size[1] * grid_size[2] - 1
           /\ ret.position_back = ret.position
    /\ ret.op = "_state_to_pos" =>
           /\ ret.position \in Positions(grid_size)
           /\ ret.state_back = ret.state
    /\ \A p, q \in Positions(grid_size) :
           p # q => _pos_to_state(p) # _pos_to_state(q)

\* the last cell of the 3x4 grid was mapped to the index 11 and back
C7_Witness ==
    /\ grid_size = <<3, 4>>
    /\ ret.op = "_pos_to_state"
    /\ ret.position = <<2, 3>>
    /\ ret.state = 11
    /\ ret.position_back = <<2, 3>>

-----------------------------------------------------------------------------
(* Properties of the scenario, checked under SpecScenario *)

\* C9: in the scenario each of the first seven steps returns done = false and
\* the eighth returns the state index 24 (position (4,4)), the reward 10 and
\* done = true.
C9_ScenarioReachesGoal ==
    ret.op = "step" =>
        /\ ret.err = "none"
        /\ IF Len(script) > 0
           THEN ret.done = FALSE /\ done = FALSE
           ELSE /\ ret.state = 24
                /\ ret.reward = 10
                /\ ret.done = TRUE
                /\ done = TRUE
                /\ agent_pos = <<4, 4>>

\* the eighth step was taken on the grid of the usage example, with its
\* terminal_rewards
C9_Witness ==
    /\ grid_matrix = ExampleGrid
    /\ terminal_rewards = [p \in {<<4, 4>>} |-> 10]
    /\ ret.op = "step"
    /\ script = <<>>
    /\ ret.state = 24

-----------------------------------------------------------------------------
(* Properties of the strategy runs, checked under SpecBandit *)

\* C10 as stated: for every k >= 1 and every steps >= 0, the two lists a
\* strategy run returns have exactly `steps` entries each.
C10_RunReturnsStepsEntries ==
    pc = "returned" =>
        /\ Len(rewards) = steps
        /\ Len(optimal_action_count) = steps

\* no move from the position stays in the grid and off the obstacles
Enclosed(position) ==
    \A a \in 0 .. 3 :
        LET cell == _move(position, a).pos
        IN  cell \notin Positions(grid_size) \/ grid_matrix[cell] = StrCell("X")

\* C16: when a step has returned, done is true exactly if the agent's
\* position (the cell it moved to, or the one it stayed on) is the goal or a
\* key of terminal_rewards; the step returns that value of done.
C16_DoneIffOnTerminalCell ==
    Stepped =>
        /\ ret.done = done
        /\ done <=> (agent_pos = goal \/ agent_pos \in DOMAIN terminal_rewards)

\* C16 witness: the start cell is a key of terminal_rewards and every move
\* from it is blocked; a step has left the agent there and ended the episode
C16_Witness ==
    /\ Stepped
    /\ done
    /\ agent_pos = start
    /\ start /= goal
    /\ start \in DOMAIN terminal_rewards
    /\ Enclosed(start)

\* the row and the column an action adds to the position
RowDelta(a) == IF a = 0 THEN -1 ELSE IF a = 2 THEN 1 ELSE 0
ColDelta(a) == IF a = 1 THEN 1 ELSE IF a = 3 THEN -1 ELSE 0

\* C17: a step with an action 0..3 in an episode that is not done raises
\* nothing; if the cell one row up (0), one column right (1), one row down
\* (2) or one column left (3) is outside the grid or an 'X' cell the agent
\* stays where it was, otherwise it is on that cell; the grid, start, goal,
\* obstacles, terminal_rewards and reward_map are as before.
C17_MoveOrStay ==
    [][(phase = "ready" /\ ~done /\ ret'.op = "step" /\ ret'.arg \in 0 .. 3) =>
          LET cell == <<agent_pos[1] + RowDelta(ret'.arg),
                        agent_pos[2] + ColDelta(ret'.arg)>>
              blocked == \/ cell \notin Positions(grid_size)
                         \/ grid_matrix[cell] = StrCell("X")
          IN  /\ ret'.err = "none"
              /\ agent_pos' = IF blocked THEN agent_pos ELSE cell
              /\ UNCHANGED <<grid_matrix, grid_size, terminal_rewards, start,
                             goal, obstacles, reward_map>>]_vars

\* C17 witness: a step to the right has run into the obstacle next to the
\* start cell and left the agent on the start cell, the episode going on
C17_Witness ==
    /\ Stepped
    /\ ret.arg = 1
    /\ ~done
    /\ agent_pos = start
    /\ <<start[1], start[2] + 1>> \in Positions(grid_size)
    /\ grid_matrix[<<start[1], start[2] + 1>>] = StrCell("X")

-----------------------------------------------------------------------------
(* Properties of the bandit and of the two strategies *)

\* the run in progress, or the last one, is a run of epsilon_greedy
InEpsilonGreedy == ret.op = "epsilon_greedy"

\* the run in progress, or the last one, is a run of ucb
InUcb == ret.op = "ucb"

\* C11: a run of epsilon_greedy with epsilon = 0 on a bandit whose true mean
\* is 100 for arm 0 and 0 for every other arm pulls arm 0 at the first step
\* and at every later one: after t steps the t pulls all went to arm 0, every
\* reward is 100 and every optimal-action flag is true.
C11_GreedyKeepsDominantArm ==
    InEpsilonGreedy =>
        /\ Len(optimal_action_count) = t
        /\ Len(rewards) = t
        /\ \A i \in 1 .. t : optimal_action_count[i] /\ rewards[i] = 100
        /\ t > 0 => pulled = 0
        /\ \A i \in 0 .. k - 1 : action_counts[i] = IF i = 0 THEN t ELSE 0

\* C11 witness: a run of at least three steps on three arms has returned
C11_Witness ==
    /\ InEpsilonGreedy
    /\ pc = "returned"
    /\ k = 3
    /\ t >= 3
    /\ param = 0
    /\ q_true = DominantMeans(3)

\* C12: whenever ucb computes the scores (an iteration of its main loop, at
\* a step t with k <= t < steps) every arm's local count is at least 1 and t
\* is at least 1: nothing is divided by zero and no logarithm of zero is taken.
C12_ScoresAreDefined ==
    (InUcb /\ pc = "ucb_loop" /\ t < steps) =>
        /\ k >= 1
        /\ t >= k
        /\ t >= 1
        /\ \A i \in 0 .. k - 1 : ucb_action_counts[i] >= 1

\* C12 witness: the first score computation after the warm-up, at t = k = 1
C12_Witness ==
    /\ InUcb
    /\ pc = "ucb_loop"
    /\ k = 1
    /\ t = k
    /\ t < steps

\* the caller's last call was bandit.step(action) with an arm 0 <= action < k
SteppedArm ==
    /\ ret.op = "bandit.step"
    /\ ret.err = "none"
    /\ ret.arg \in 0 .. k - 1

\* C13: once the bandit is constructed, no reset(), no step(action) and no
\* step of a run of epsilon_greedy or ucb changes the true means or the
\* optimal arm, and the optimal arm is always the lowest index whose true
\* mean is the largest.
C13_TrueMeansAreFixed ==
    /\ [](\A j \in 0 .. k - 1 :
             /\ q_true[j] <= q_true[optimal_action]
             /\ j < optimal_action => q_true[j] < q_true[optimal_action])
    /\ [][k' = k /\ q_true' = q_true /\ optimal_action' = optimal_action]_vars

\* C13 witness: two arms share the largest true mean, and the caller has
\* pulled an arm after a run of a strategy
C13_Witness ==
    /\ SteppedArm
    /\ Len(rewards) > 0
    /\ k = 2
    /\ q_true[0] = q_true[1]
    /\ optimal_action = 0

\* C14: step(action) with 0 <= action < k adds one to that arm's count and
\* leaves every other count and every estimate as they were; no count ever
\* goes down except in a reset (the caller's, or the one a run starts with),
\* which sets every count and every estimate to zero.
C14_CountsGrowUntilReset ==
    [][/\ (ret'.op = "bandit.step" /\ ret'.err = "none"
              /\ ret'.arg \in 0 .. k - 1) =>
            /\ \A i \in 0 .. k - 1 :
                   action_counts'[i] =
                       action_counts[i] + (IF i = ret'.arg THEN 1 ELSE 0)
            /\ q_estimates' = q_estimates
       /\ \/ \A i \in 0 .. k - 1 : action_counts'[i] >= action_counts[i]
          \/ /\ \/ ret'.op = "bandit.reset"
                 \/ (pc' \in {"ucb_warmup", "ucb_loop", "eps_loop"} /\ t' = 0)
             /\ \A i \in 0 .. k - 1 :
                    action_counts'[i] = 0 /\ q_estimates'[i] = 0]_vars

\* C14 witness: the caller's pull is the second of its arm, another arm has
\* been pulled too
C14_Witness ==
    /\ SteppedArm
    /\ action_counts[ret.arg] = 2
    /\ \E i \in 0 .. k - 1 : i /= ret.arg /\ action_counts[i] = 1

\* C15: in a run of epsilon_greedy, whatever epsilon is and whichever arms
\* are chosen, every update of an estimate divides by the count of the arm
\* just pulled as it stands after the pull, which is at least 1.
C15_DivisorIsCountAfterPull ==
    (InEpsilonGreedy /\ t > 0) =>
        /\ divisor = action_counts[pulled]
        /\ divisor >= 1

\* C15 witness: an exploring run has pulled an arm other than arm 0 for the
\* second time
C15_Witness ==
    /\ InEpsilonGreedy
    /\ param > 0
    /\ pulled > 0
    /\ t >= 2
    /\ divisor = 2

\* C18: the first k pulls of a run of ucb are the arms 0, 1, ..., k-1 in
\* this order: after t pulls of the warm-up the last arm pulled is t-1, the
\* arms below t have been pulled once, their local count is 1 and their
\* local estimate is the reward observed, their true mean; the other arms
\* are untouched. At the end of the warm-up (t = k) this holds of every arm.
C18_WarmupPullsEachArmOnce ==
    (InUcb /\ (pc = "ucb_warmup" \/ (pc = "ucb_loop" /\ t = k))) =>
        /\ t <= k
        /\ Len(rewards) = t
        /\ t > 0 => pulled = t - 1
        /\ \A i \in 0 .. k - 1 :
               IF i < t
               THEN /\ action_counts[i] = 1
                    /\ ucb_action_counts[i] = 1
                    /\ rewards[i + 1] = q_true[i]
                    /\ ucb_q_estimates[i] = rewards[i + 1]
               ELSE /\ action_counts[i] = 0
                    /\ ucb_action_counts[i] = 0
                    /\ ucb_q_estimates[i] = 0

\* C18 witness: the warm-up of a run on three arms of different true means
\* has ended, in a run asked for fewer steps than arms
C18_Witness ==
    /\ InUcb
    /\ pc = "ucb_loop"
    /\ k = 3
    /\ t = k
    /\ steps = 2
    /\ q_true[0] /= q_true[1]
    /\ q_true[1] /= q_true[2]
    /\ q_true[0] /= q_true[2]

\* C19: a run of ucb on a bandit that earlier runs have used returns the
\* rewards and the optimal-action flags that the run with the same c and
\* the same steps returned on the bandit as constructed.
C19_UsedBanditRunsAsFresh ==
    (InUcb /\ pc = "returned" /\ fresh /= <<>>
        /\ fresh[1].c = param /\ fresh[1].steps = steps) =>
        /\ rewards = fresh[1].rewards
        /\ optimal_action_count = fresh[1].optimal_actions

\* C19 witness: a run with the c and the steps of the first run, past the
\* warm-up on three arms, has returned on the bandit used in between
C19_Witness ==
    /\ InUcb
    /\ pc = "returned"
    /\ fresh /= <<>>
    /\ fresh[1].used
    /\ fresh[1].c = param
    /\ fresh[1].steps = steps
    /\ k = 3
    /\ steps > k

\* the arms whose true mean is not negative
NonNegative == {i \in 0 .. k - 1 : q_true[i] >= 0}

\* the lowest of them
FirstNonNegative == CHOOSE i \in NonNegative : \A j \in NonNegative : i <= j

\* a run of epsilon_greedy with epsilon = 0, in progress or returned
InGreedy == InEpsilonGreedy /\ param = 0

\* where t pulls of such a run have gone. If some true mean is not negative:
\* one pull to each arm below the lowest such arm, in the order of the
\* indices, and every later pull to that arm. If every true mean is negative:
\* one pull to each arm, in the order of the indices, and every later pull to
\* the optimal arm.
GreedySettles ==
    IF NonNegative /= {}
    THEN /\ t > 0 => pulled = (IF t - 1 < FirstNonNegative THEN t - 1
                                ELSE FirstNonNegative)
         /\ \A i \in 0 .. k - 1 :
                action_counts[i] =
                    IF i < FirstNonNegative THEN (IF i < t THEN 1 ELSE 0)
                    ELSE IF i = FirstNonNegative /\ t > i THEN t - i
                    ELSE 0
    ELSE /\ t > 0 => pulled = (IF t <= k THEN t - 1 ELSE optimal_action)
         /\ \A i \in 0 .. k - 1 :
                action_counts[i] =
                    IF t <= k THEN (IF i < t THEN 1 ELSE 0)
                    ELSE IF i = optimal_action THEN 1 + t - k
                    ELSE 1

\* a pull of the run, after its first one
GreedyPullsAgain == InGreedy /\ pc = "eps_loop" /\ t >= 1 /\ t' = t + 1

\* C20 as stated: in a run of epsilon_greedy with epsilon = 0 on any bandit
\* the arms pulled never go down in index, and the pulls go where
\* GreedySettles says.
C20_GreedyArmsNeverDecrease ==
    /\ [](InGreedy => GreedySettles)
    /\ [][GreedyPullsAgain => pulled' >= pulled]_vars

\* C20: in a run of epsilon_greedy with epsilon = 0 the pulls go where
\* GreedySettles says, so the run can stay on an arm that is not optimal; the
\* arms pulled never go down in index as long as some true mean is not
\* negative (when all are negative the run comes back from arm k-1 to the
\* optimal arm).
C20_GreedySettlesOnFirstNonNegative ==
    /\ [](InGreedy => GreedySettles)
    /\ [][(GreedyPullsAgain /\ NonNegative /= {}) => pulled' >= pulled]_vars

\* C20 witness: with every true mean negative, the run has pulled each of
\* three arms once and has gone back to the optimal arm, below the last one
C20_Witness ==
    /\ InGreedy
    /\ NonNegative = {}
    /\ k = 3
    /\ t > k
    /\ pulled = optimal_action
    /\ pulled < k - 1

====
